---- MODULE Spec2Model ----
(***************************************************************************)
(* Plaid -> PostgreSQL extract/load pipeline.                              *)
(*                                                                         *)
(* Two scripts define the class PlaidPostgresETL:                          *)
(*   "basic"    : src/extrqct_upsert_accunt.py                             *)
(*   "detailed" : src/plaid_to_PostgreSQL_ETL_Detailed_Logging.py          *)
(* Both write to the same two tables of one PostgreSQL database.  A run of *)
(* either script is a sequence of stages (Stages); every stage talks to a  *)
(* collaborator (Plaid, PostgreSQL, S3) that may answer with an error.     *)
(* src/postgres_to_s3.py is a separate command that exports tables of that *)
(* database to S3 (the `cli` process).                                     *)
(***************************************************************************)
EXTENDS Integers, Sequences, FiniteSets, TLC

\* ---------------------------------------------------------------- bounds
MaxTxns == 3        \* largest number of transactions a source holds
MaxPage == 2        \* largest page size a source serves
MaxRuns == 2        \* number of pipeline runs in one behaviour
MaxExports == 2     \* number of invocations of the export utility in one behaviour

\* ------------------------------------------------------ program constants
page_size == 100    \* psycopg2 execute_values(cursor, query, rows): rows per statement

None == "None"
Scripts == {"basic", "detailed"}
AccountIds == <<"a1", "a2">>
Tokens == {"access", "public", "none"}

Min(a, b) == IF a < b THEN a ELSE b

\* ------------------------------------------------------------ the source
\* A source record as the Plaid API returns it (only the fields the
\* loaders read are kept; `ver` stands for the data that changes between syncs).
SourceAccount(i, ver) ==
    [account_id |-> AccountIds[i], current |-> ver]

SourceTransaction(i, ver) ==
    [transaction_id |-> i,
     account_id     |-> AccountIds[((i - 1) % Len(AccountIds)) + 1],
     amount         |-> ver]

\* A source: its accounts, its transactions in source order, the total it
\* reports (and whether its responses carry one at all) and the number of
\* records it serves per request.
MkSource(nAcc, n, ver, count) ==
    [accounts      |-> [i \in 1..nAcc |-> SourceAccount(i, ver)],
     transactions  |-> [i \in 1..n |-> SourceTransaction(i, ver)],
     total         |-> n,
     reports_total |-> TRUE,
     count         |-> count]

\* (A page size above the number of records held answers as that number does.)
Sources ==
    UNION {{MkSource(nAcc, n, ver, count) :
                nAcc \in 0..Len(AccountIds), ver \in 0..1,
                count \in 1..Min(MaxPage, IF n = 0 THEN 1 ELSE n)} :
           n \in 0..MaxTxns}

\* Before the first request of a run nothing of the source is known.
NoSource == MkSource(0, 0, 0, 1)

\* The request both scripts build: access token and date window only, so the
\* paging options are the API's defaults (offset 0).
TransactionsGetRequest == [offset |-> 0]

\* The API is stateless: the answer depends on the request alone.
transactions_get(src, req) ==
    LET page == SubSeq(src.transactions, req.offset + 1,
                       Min(req.offset + src.count, Len(src.transactions)))
    IN  IF src.reports_total
        THEN [transactions |-> page, total_transactions |-> src.total]
        ELSE [transactions |-> page]

\* resp.get("total_transactions", len(transactions)) on the first response.
total_or_one_more(resp) ==
    IF "total_transactions" \in DOMAIN resp
    THEN resp.total_transactions
    ELSE Len(resp.transactions) + 1

resp_get_total(resp) ==
    IF "total_transactions" \in DOMAIN resp
    THEN resp.total_transactions
    ELSE Len(resp.transactions)

\* `while len(transactions) < total` re-evaluated after a response.
LoopDone(fetched, total) == ~(Len(fetched) < total)

\* The count of requests issued is kept exactly up to MaxRequests, more than
\* any terminating extraction over these sources issues; beyond that only its
\* parity is kept.
MaxRequests == MaxTxns + 3

CountRequest(n) == IF n < MaxRequests THEN n + 1 ELSE MaxRequests - 1

\* -------------------------------------------------------------- the store
EmptyTables == [accounts |-> {}, transactions |-> {}]
TableNames == {"accounts", "transactions"}
KeyOf(name) == IF name = "accounts" THEN "account_id" ELSE "transaction_id"
Keys(table, key) == {r[key] : r \in table}

\* RecordMapper: the row tuple built for one source record.
account_row(a, now) ==
    [account_id      |-> a.account_id,
     current_balance |-> a.current,
     created_at      |-> now,
     updated_at      |-> now]

transaction_row(t, now) ==
    [transaction_id |-> t.transaction_id,
     account_id     |-> t.account_id,
     amount         |-> t.amount,
     created_at     |-> now,
     updated_at     |-> now]

Rows(name, data, now) ==
    [i \in 1..Len(data) |->
        IF name = "accounts" THEN account_row(data[i], now)
                             ELSE transaction_row(data[i], now)]

\* The columns of the DO UPDATE SET list.
SetCols(script, name) ==
    IF script = "basic"
    THEN IF name = "accounts" THEN {"current_balance", "updated_at"}
                              ELSE {"amount", "updated_at"}
    ELSE IF name = "accounts" THEN {"current_balance", "created_at", "updated_at"}
                              ELSE {"account_id", "amount", "created_at", "updated_at"}

\* RETURNING (xmax = 0): true of a row the statement inserted.
xmax_unchecked(table, key, row) == TRUE

xmax_is_zero(table, key, row) == row[key] \notin Keys(table, key)

\* INSERT ... ON CONFLICT (key) DO UPDATE SET ... for one row.
InsertAlways(table, key, row, setCols) == table \cup {row}

UpsertRow(table, key, row, setCols) ==
    IF \E r \in table : r[key] = row[key]
    THEN {IF r[key] = row[key]
          THEN [c \in DOMAIN r |-> IF c \in setCols THEN row[c] ELSE r[c]]
          ELSE r : r \in table}
    ELSE table \cup {row}

\* The rows of one statement applied to a table.  A statement never holds a
\* key twice, so each row meets only the stored rows of its own key.
ApplyRows(table, key, rows, setCols) ==
    {r \in table : \A i \in 1..Len(rows) : rows[i][key] # r[key]}
        \cup UNION {UpsertRow({r \in table : r[key] = rows[i][key]}, key, rows[i], setCols) :
                       i \in 1..Len(rows)}

\* One INSERT ... VALUES (...),(...) ON CONFLICT DO UPDATE statement.  It is
\* atomic: it fails as a whole when two of its rows have the same key
\* (cardinality violation) or when a transaction row references an account
\* that is not in accounts (foreign key).
Statement(tables, name, rows, setCols) ==
    LET key == KeyOf(name)
        twice == \E i, j \in 1..Len(rows) : i < j /\ rows[i][key] = rows[j][key]
        fk == /\ name = "transactions"
              /\ \E i \in 1..Len(rows) :
                    rows[i].account_id \notin Keys(tables.accounts, "account_id")
    IN  IF twice \/ fk
        THEN [ok |-> FALSE, tables |-> tables, returning |-> <<>>]
        ELSE [ok |-> TRUE,
              tables |-> [tables EXCEPT ![name] = ApplyRows(@, key, rows, setCols)],
              returning |-> [i \in 1..Len(rows) |-> xmax_is_zero(tables[name], key, rows[i])]]

\* execute_values: one statement per page_size rows, stopping at the first
\* error; the cursor keeps the result of the last statement only.
RECURSIVE execute_values(_, _, _, _, _)
execute_values(tables, name, rows, setCols, last) ==
    IF rows = <<>> THEN [ok |-> TRUE, tables |-> tables, returning |-> last]
    ELSE LET n  == Min(page_size, Len(rows))
             st == Statement(tables, name, SubSeq(rows, 1, n), setCols)
         IN  IF ~st.ok THEN [ok |-> FALSE, tables |-> tables, returning |-> <<>>]
             ELSE execute_values(st.tables, name, SubSeq(rows, n + 1, Len(rows)),
                                 setCols, st.returning)

NoCounts == [printed |-> FALSE, loaded |-> 0, inserted |-> 0, updated |-> 0]

Count(flags, b) == Cardinality({i \in 1..Len(flags) : flags[i] = b})

\* load_accounts / load_transactions (basic), upsert_table (detailed): the
\* effect of one call on the connection's view `wk` and on the committed
\* tables, and what it prints.  dbOk = FALSE is any other store error.
RECURSIVE RowByRow(_, _, _, _)
RowByRow(tables, name, rows, setCols) ==
    IF rows = <<>> THEN [ok |-> TRUE, tables |-> tables]
    ELSE LET st == Statement(tables, name, <<Head(rows)>>, setCols)
         IN  IF ~st.ok THEN [ok |-> FALSE, tables |-> tables]
             ELSE RowByRow(st.tables, name, Tail(rows), setCols)

load_autocommit(script, name, data, now, wk, committed, dbOk) ==
    LET res == RowByRow(wk, name, Rows(name, data, now), SetCols(script, name))
    IN  [ok |-> res.ok /\ dbOk, ran |-> data # <<>>, work |-> res.tables,
         db |-> res.tables, report |-> NoCounts]

load(script, name, data, now, wk, committed, dbOk) ==
    IF data = <<>>
    THEN [ok |-> TRUE, ran |-> FALSE, work |-> wk, db |-> committed, report |-> NoCounts]
    ELSE IF ~dbOk
    THEN [ok |-> FALSE, ran |-> TRUE, work |-> wk, db |-> committed, report |-> NoCounts]
    ELSE LET res == execute_values(wk, name, Rows(name, data, now),
                                   SetCols(script, name), <<>>)
         IN  IF ~res.ok
             THEN [ok |-> FALSE, ran |-> TRUE, work |-> res.tables,
                   db |-> committed, report |-> NoCounts]
             ELSE [ok |-> TRUE, ran |-> TRUE, work |-> res.tables, db |-> res.tables,
                   report |-> IF script = "basic"
                              THEN [printed  |-> TRUE,
                                    loaded   |-> Len(res.returning),
                                    inserted |-> Count(res.returning, TRUE),
                                    updated  |-> Len(res.returning)
                                                   - Count(res.returning, TRUE)]
                              ELSE NoCounts]


\* ------------------------------------------------------------ the exports
\* Rows of a table as a SELECT sees them; the placeholder tables of the
\* detailed script are never written (their upserts get an empty list).
TableRows(tables, name) == IF name \in TableNames THEN tables[name] ELSE {}

\* The clock advances in ticks; "%Y%m%dT%H%M%SZ" keeps whole seconds.
TicksPerSecond == 2

timestamp_now(now) == now \div TicksPerSecond

\* str.rstrip("/") on a prefix given as its sequence of path parts.
RECURSIVE rstrip(_)
rstrip(p) ==
    IF p # <<>> /\ p[Len(p)] = "/" THEN rstrip(SubSeq(p, 1, Len(p) - 1)) ELSE p

\* postgres_to_s3.py: key = f"{prefix}{table_name}.{timestamp_now()}.csv"
export_key(s3_prefix, table_name, now) ==
    [prefix    |-> IF s3_prefix # <<>> THEN Append(rstrip(s3_prefix), "/") ELSE <<>>,
     table     |-> table_name,
     timestamp |-> timestamp_now(now)]

\* detailed script: s3_key = f"{self.s3_prefix}{table_name}.csv"
detailed_key(s3_prefix, table_name) ==
    [prefix |-> s3_prefix, table |-> table_name]

\* The CSV written for a table: the header line, then one line per row.
csv_lines(rows) == 1 + Cardinality(rows)

\* upload_file / upload_fileobj: the object stored under a key is replaced.
\* Of an object the bucket keeps the key and when its export began.
upload(objects, key, now) ==
    {o \in objects : o.key # key} \cup {[key |-> key, at |-> now]}

\* The tables run() of the detailed script exports, in order.
ExportedTables ==
    <<"accounts", "transactions", "categories", "customers", "products",
      "orders", "order_items">>

\* The first k exports of the detailed script's loop.
RECURSIVE export_all(_, _, _)
export_all(objects, k, now) ==
    IF k = 0 THEN objects
    ELSE upload(export_all(objects, k - 1, now),
                detailed_key(<<>>, ExportedTables[k]), now)

\* main() of postgres_to_s3.py up to the table loop: the bucket check, then
\* the connection.
main_connect_first(bucket, connOk) ==
    IF ~connOk THEN [pc |-> "exited", exit |-> 3, conn |-> "none"]
    ELSE IF ~bucket THEN [pc |-> "exited", exit |-> 2, conn |-> "open"]
    ELSE [pc |-> "tables", exit |-> 0, conn |-> "open"]

main_start(bucket, connOk) ==
    IF ~bucket THEN [pc |-> "exited", exit |-> 2, conn |-> "none"]
    ELSE IF ~connOk THEN [pc |-> "exited", exit |-> 3, conn |-> "none"]
    ELSE [pc |-> "tables", exit |-> 0, conn |-> "open"]

\* results[table] = ...
Put(results, table, info) ==
    [t \in DOMAIN results \cup {table} |-> IF t = table THEN info ELSE results[t]]

NoKey == [key |-> None]

\* str(e) of the errors an export can meet.
InFailedSqlTransaction == "current transaction is aborted"

\* ------------------------------------------------------------------ run()
\* The calls of run(), in order.
StagesLoadAsExtracted(s) ==
    IF s = "basic"
    THEN <<"credential", "connect_postgres", "create_tables",
           "extract_accounts", "load_accounts",
           "extract_transactions", "load_transactions", "return">>
    ELSE <<"credential", "connect_postgres", "create_tables", "list_tables",
           "extract_accounts", "load_accounts",
           "extract_transactions", "load_transactions", "export_tables", "return">>

StagesTransactionsFirst(s) ==
    IF s = "basic"
    THEN <<"credential", "connect_postgres", "create_tables",
           "extract_accounts", "extract_transactions",
           "load_transactions", "load_accounts", "return">>
    ELSE <<"credential", "connect_postgres", "create_tables", "list_tables",
           "extract_accounts", "extract_transactions",
           "load_transactions", "load_accounts", "export_tables", "return">>

Stages(s) ==
    IF s = "basic"
    THEN <<"credential", "connect_postgres", "create_tables",
           "extract_accounts", "extract_transactions",
           "load_accounts", "load_transactions", "return">>
    ELSE <<"credential", "connect_postgres", "create_tables", "list_tables",
           "extract_accounts", "extract_transactions",
           "load_accounts", "load_transactions", "export_tables", "return">>

\* What run() does with an exception raised by a stage: basic has
\* except (rollback, re-raise) and finally (close); detailed has neither.
except_finally(s, c) ==
    IF s = "basic" /\ c.conn = "open"
    THEN [conn |-> "closed", txn |-> "idle", work |-> c.db,
          cleanup |-> <<"rollback", "close">>]
    ELSE [conn |-> c.conn, txn |-> c.txn, work |-> c.work, cleanup |-> <<>>]

VARIABLES
    db,            \* committed tables of the database
    work,          \* the tables as the run's connection sees them
    conn,          \* self.pg_conn: "none", "open", "closed"
    txn,           \* the connection's transaction: "idle", "open", "aborted"
    cleanup,       \* what the failure/exit path of run() did, in order
    script,        \* which script is running
    source,        \* the remote source of this run
    plaid_access_token, plaid_public_token,   \* whether each is set
    pc,            \* index in Stages(script) of the stage to run next
    outcome,       \* "idle", "running", "returned", "raised"
    failed,        \* the stage that raised, or None
    accounts,      \* run()'s accounts
    transactions,  \* run()'s transactions
    bound,         \* which of these two locals of run() have been assigned
    fetched,       \* extract_transactions' list while it is paging
    requests,      \* transactions_get requests issued by this run
    total,         \* extract_transactions' total
    report,        \* the counts printed by the loaders of this run
    clock,         \* datetime.now(timezone.utc)
    runs,          \* runs started
    start,         \* committed tables when this run started
    call,          \* the last call of a loader
    lastLoaded,    \* per table, the data of its last load that ran and succeeded
    s3,            \* the bucket: objects [key, at] (at: when the export began)
    cli            \* the process running main() of postgres_to_s3.py

vars == <<db, work, conn, txn, cleanup, script, source, plaid_access_token,
          plaid_public_token, pc, outcome, failed, accounts, transactions,
          bound, fetched, requests, total, report, clock, runs, start, call, lastLoaded,
          s3, cli>>

\* The variables of the pipeline run other than the clock.
run_vars == <<db, work, conn, txn, cleanup, script, source, plaid_access_token,
              plaid_public_token, pc, outcome, failed, accounts, transactions,
              bound, fetched, requests, total, report, runs, start, call, lastLoaded>>

NoReport == [accounts |-> NoCounts, transactions |-> NoCounts]
NoCall == [table |-> None]
NoResults == [t \in {} |-> NoKey]
NoCli == [pc |-> "idle", s3_bucket |-> FALSE, dry_run |-> FALSE, prefix |-> <<>>,
          tables |-> <<>>, i |-> 1, conn |-> "none", txn |-> "idle",
          results |-> NoResults, key |-> NoKey, spool |-> 0, uploads |-> 0,
          exit |-> 0, invocations |-> 0]

Init ==
    /\ db = EmptyTables
    /\ work = EmptyTables
    /\ conn = "none"
    /\ txn = "idle"
    /\ cleanup = <<>>
    /\ script = "basic"
    /\ source = NoSource
    /\ plaid_access_token = FALSE
    /\ plaid_public_token = FALSE
    /\ pc = 1
    /\ outcome = "idle"
    /\ failed = None
    /\ accounts = <<>>
    /\ transactions = <<>>
    /\ bound = {}
    /\ fetched = <<>>
    /\ requests = 0
    /\ total = 0
    /\ report = NoReport
    /\ clock = 0
    /\ runs = 0
    /\ start = EmptyTables
    /\ call = NoCall
    /\ lastLoaded = [accounts |-> <<>>, transactions |-> <<>>]
    /\ s3 = {}
    /\ cli = NoCli

At(stage) ==
    /\ outcome = "running"
    /\ pc \in 1..Len(Stages(script))
    /\ Stages(script)[pc] = stage

\* A new process: PlaidPostgresETL() then run().
Begin(s, tok) ==
    /\ outcome # "running"
    /\ script' = s
    /\ source' = NoSource
    /\ plaid_access_token' = (tok = "access")
    /\ plaid_public_token' = (tok = "public")
    /\ conn' = "none"
    /\ txn' = "idle"
    /\ work' = db
    /\ cleanup' = <<>>
    /\ pc' = 1
    /\ outcome' = "running"
    /\ failed' = None
    /\ accounts' = <<>>
    /\ transactions' = <<>>
    /\ bound' = {}
    /\ fetched' = <<>>
    /\ requests' = 0
    /\ total' = 0
    /\ report' = NoReport
    /\ clock' = clock + 1
    /\ runs' = runs + 1
    /\ start' = db
    /\ call' = NoCall
    /\ UNCHANGED <<db, lastLoaded, s3, cli>>

main ==
    /\ runs < MaxRuns
    /\ \E s \in Scripts, tok \in Tokens : Begin(s, tok)

\* An exception leaves a stage inside run()'s try block (basic) or run()'s
\* body (detailed); wk and tx are the connection's view and transaction
\* state at that moment.
Raise(wk, tx) ==
    LET h == except_finally(script, [conn |-> conn, txn |-> tx, work |-> wk, db |-> db])
    IN  /\ outcome' = "raised"
        /\ failed' = Stages(script)[pc]
        /\ conn' = h.conn
        /\ txn' = h.txn
        /\ work' = h.work
        /\ cleanup' = h.cleanup
        /\ pc' = pc

\* The token check at the head of run(), before the store is touched.
credential ==
    /\ At("credential")
    /\ \E ok \in BOOLEAN :
        LET exchange == ~plaid_access_token /\ plaid_public_token
            raises == IF script = "basic"
                      THEN (exchange /\ ~ok)
                             \/ (~plaid_access_token /\ ~plaid_public_token)
                      ELSE exchange
        IN  IF raises
            THEN /\ outcome' = "raised"
                 /\ failed' = "credential"
                 /\ UNCHANGED <<pc, plaid_access_token>>
            ELSE /\ pc' = pc + 1
                 /\ plaid_access_token' = (plaid_access_token \/ exchange)
                 /\ UNCHANGED <<outcome, failed>>
    /\ UNCHANGED <<db, work, conn, txn, cleanup, script, source, plaid_public_token,
                   accounts, transactions, bound, fetched, requests, total, report, clock, runs,
                   start, call, lastLoaded, s3, cli>>

connect_postgres ==
    /\ At("connect_postgres")
    /\ \E ok \in BOOLEAN :
        IF ok
        THEN /\ conn' = "open"
             /\ pc' = pc + 1
             /\ UNCHANGED <<outcome, failed, txn, work, cleanup>>
        ELSE Raise(work, txn)
    /\ UNCHANGED <<db, script, source, plaid_access_token, plaid_public_token,
                   accounts, transactions, bound, fetched, requests, total, report, clock, runs,
                   start, call, lastLoaded, s3, cli>>

\* CREATE TABLE IF NOT EXISTS ...; commit.  The tables' rows are untouched.
create_tables ==
    /\ At("create_tables")
    /\ \E ok \in BOOLEAN :
        IF ok
        THEN /\ pc' = pc + 1
             /\ txn' = "idle"
             /\ UNCHANGED <<outcome, failed, conn, work, cleanup>>
        ELSE Raise(work, "aborted")
    /\ UNCHANGED <<db, script, source, plaid_access_token, plaid_public_token,
                   accounts, transactions, bound, fetched, requests, total, report, clock, runs,
                   start, call, lastLoaded, s3, cli>>

\* A SELECT on information_schema; it opens a transaction and never ends it.
list_tables ==
    /\ At("list_tables")
    /\ \E ok \in BOOLEAN :
        IF ok
        THEN /\ pc' = pc + 1
             /\ txn' = "open"
             /\ UNCHANGED <<outcome, failed, conn, work, cleanup>>
        ELSE Raise(work, "aborted")
    /\ UNCHANGED <<db, script, source, plaid_access_token, plaid_public_token,
                   accounts, transactions, bound, fetched, requests, total, report, clock, runs,
                   start, call, lastLoaded, s3, cli>>

\* The first request of a run; `offered` are the sources the run may meet.
extract_accounts(offered) ==
    /\ At("extract_accounts")
    /\ \E ok \in BOOLEAN :
        IF ok /\ (script = "basic" \/ plaid_access_token)
        THEN \E src \in offered :
                /\ source' = src
                /\ accounts' = src.accounts
                /\ bound' = bound \cup {"accounts"}
                /\ pc' = pc + 1
                /\ UNCHANGED <<outcome, failed, conn, txn, work, cleanup>>
        ELSE /\ Raise(work, txn)
             /\ UNCHANGED <<source, accounts, bound>>
    /\ UNCHANGED <<db, script, plaid_access_token, plaid_public_token,
                   transactions, fetched, requests, total, report, clock, runs,
                   start, call, lastLoaded, s3, cli>>

\* One request of extract_transactions: the first one, or one turn of the
\* while loop; the function returns when the loop condition turns false.
extract_transactions ==
    /\ At("extract_transactions")
    /\ \E ok \in BOOLEAN :
        IF ok /\ (script = "basic" \/ plaid_access_token)
        THEN LET resp == transactions_get(source, TransactionsGetRequest)
                 list == fetched \o resp.transactions
                 tot  == IF requests = 0 THEN resp_get_total(resp) ELSE total
             IN  /\ total' = tot
                 /\ requests' = CountRequest(requests)
                 /\ fetched' = list
                 /\ IF LoopDone(list, tot)
                    THEN /\ transactions' = list
                         /\ bound' = bound \cup {"transactions"}
                         /\ pc' = pc + 1
                    ELSE UNCHANGED <<transactions, bound, pc>>
                 /\ UNCHANGED <<outcome, failed, conn, txn, work, cleanup>>
        ELSE /\ Raise(work, txn)
             /\ UNCHANGED <<transactions, bound, fetched, requests, total>>
    /\ UNCHANGED <<db, script, source, plaid_access_token, plaid_public_token,
                   accounts, report, clock, runs, start, call, lastLoaded, s3, cli>>

\* A loader call on table `name` with the list `data`.
Load(name, data) ==
    \E dbOk \in BOOLEAN :
        LET r == load(script, name, data, clock, work, db, dbOk)
        IN  /\ call' = [table |-> name, script |-> script, data |-> data, pre |-> db,
                        now |-> clock,
                        ok |-> r.ok, ran |-> r.ran, report |-> r.report,
                        repeat |-> (lastLoaded[name] = data)]
            /\ lastLoaded' = IF r.ok /\ r.ran THEN [lastLoaded EXCEPT ![name] = data]
                                              ELSE lastLoaded
            /\ db' = r.db
            /\ IF r.ok
               THEN /\ work' = r.work
                    /\ txn' = IF r.ran THEN "idle" ELSE txn
                    /\ report' = [report EXCEPT ![name] = r.report]
                    /\ pc' = pc + 1
                    /\ UNCHANGED <<outcome, failed, conn, cleanup>>
               ELSE /\ Raise(r.work, "aborted")
                    /\ UNCHANGED report

load_accounts ==
    /\ At("load_accounts")
    /\ Load("accounts", accounts)
    /\ UNCHANGED <<script, source, plaid_access_token, plaid_public_token,
                   accounts, transactions, bound, fetched, requests, total, clock, runs, start, s3, cli>>

load_transactions ==
    /\ At("load_transactions")
    /\ Load("transactions", transactions)
    /\ UNCHANGED <<script, source, plaid_access_token, plaid_public_token,
                   accounts, transactions, bound, fetched, requests, total, clock, runs, start, s3, cli>>

\* detailed only: the five upserts with an empty list, then the exports, one
\* table after the other.  The loop stops at the first SELECT or upload that
\* fails; the failure taken here is at the first table (a later one differs
\* in the objects already replaced, which nothing reads).
export_tables ==
    /\ At("export_tables")
    /\ \E ok \in BOOLEAN :
        IF ok
        THEN /\ pc' = pc + 1
             /\ txn' = "open"
             /\ s3' = export_all(s3, Len(ExportedTables), clock)
             /\ UNCHANGED <<outcome, failed, conn, work, cleanup>>
        ELSE \E store \in BOOLEAN :
                /\ s3' = export_all(s3, 0, clock)
                /\ Raise(work, IF store THEN "aborted" ELSE "open")
    /\ UNCHANGED <<db, script, source, plaid_access_token, plaid_public_token,
                   accounts, transactions, bound, fetched, requests, total, report, clock, runs,
                   start, call, lastLoaded, cli>>

\* The end of run(): basic leaves through finally, detailed just returns.
return ==
    /\ At("return")
    /\ outcome' = "returned"
    /\ IF script = "basic"
       THEN /\ conn' = "closed"
            /\ cleanup' = <<"close">>
       ELSE UNCHANGED <<conn, cleanup>>
    /\ UNCHANGED <<db, work, txn, script, source, plaid_access_token,
                   plaid_public_token, pc, failed, accounts, transactions, bound,
                   fetched, requests, total, report, clock, runs, start, call, lastLoaded, s3, cli>>

Next ==
    \/ main
    \/ credential
    \/ connect_postgres
    \/ create_tables
    \/ list_tables
    \/ extract_accounts(Sources)
    \/ extract_transactions
    \/ load_accounts
    \/ load_transactions
    \/ export_tables
    \/ return

Spec == Init /\ [][Next]_vars

\* ------------------------------------------------- the two-run scenario
\* 2 accounts and 150 transactions served 100 per request, loaded by the
\* basic script into an empty store; then the same source again with the
\* amount of one transaction changed.
ScenarioSource == MkSource(2, 150, 0, 100)

ScenarioChanged(i) == [ScenarioSource EXCEPT !.transactions[i].amount = 1]

\* What the first and the second run meet.
ScenarioSources ==
    IF runs = 1 THEN {ScenarioSource}
    ELSE {ScenarioChanged(i) : i \in 1..Len(ScenarioSource.transactions)}

main_scenario ==
    /\ runs < 2
    /\ Begin("basic", "access")

NextScenario ==
    \/ main_scenario
    \/ credential
    \/ connect_postgres
    \/ create_tables
    \/ extract_accounts(ScenarioSources)
    \/ extract_transactions
    \/ load_accounts
    \/ load_transactions
    \/ return

SpecScenario == Init /\ [][NextScenario]_vars

\* ---------------------------------------------------- the export utility
\* main() of postgres_to_s3.py runs as a process of its own, next to a run of
\* the basic script that writes the tables it exports.  `cli` holds main()'s
\* locals: the arguments, the connection and its transaction, the loop index
\* i, results, and of the export under way its key and the lines written to
\* the spool.
Prefixes == {<<>>, <<"daily">>, <<"daily", "/">>}

TableLists == {<<"accounts", "transactions", "customers">>, <<"transactions">>}

\* Parsing the arguments, the bucket check and the connection.
postgres_to_s3_main ==
    /\ cli.pc \in {"idle", "exited"}
    /\ cli.invocations < MaxExports
    /\ \E bucket \in BOOLEAN, dry \in BOOLEAN, prefix \in Prefixes,
          tables \in TableLists, connOk \in BOOLEAN :
          LET st == main_start(bucket, connOk)
          IN  cli' = [pc |-> st.pc, s3_bucket |-> bucket, dry_run |-> dry,
                      prefix |-> prefix, tables |-> tables, i |-> 1,
                      conn |-> st.conn, txn |-> "idle", results |-> NoResults,
                      key |-> NoKey, spool |-> 0, uploads |-> 0, exit |-> st.exit,
                      invocations |-> cli.invocations + 1]
    /\ clock' = clock + 1
    /\ UNCHANGED <<run_vars, s3>>

\* except Exception as e: results[table] = {"error": str(e)}; next table.
Failed(message, tx) ==
    [cli EXCEPT !.pc = "tables", !.txn = tx, !.i = @ + 1,
                !.results = Put(@, cli.tables[cli.i], [error |-> message])]

\* export_table_to_s3 up to the upload: the key, COPY ... TO STDOUT into the
\* spool, upload_fileobj.  A statement sees the rows committed when it runs.
export_table_to_s3 ==
    /\ cli.pc = "tables"
    /\ cli.i <= Len(cli.tables)
    /\ ~cli.dry_run
    /\ \E copyOk \in BOOLEAN, uploadOk \in BOOLEAN :
          LET table == cli.tables[cli.i]
              key   == export_key(cli.prefix, table, clock)
          IN  IF cli.txn = "aborted"
              THEN cli' = Failed(InFailedSqlTransaction, "aborted") /\ s3' = s3
              ELSE IF ~copyOk
              THEN cli' = Failed("COPY failed", "aborted") /\ s3' = s3
              ELSE IF ~uploadOk
              THEN cli' = Failed("upload failed", "open") /\ s3' = s3
              ELSE /\ s3' = upload(s3, key, clock)
                   /\ cli' = [cli EXCEPT !.pc = "count", !.txn = "open", !.key = key,
                                         !.spool = csv_lines(TableRows(db, table)),
                                         !.uploads = @ + 1]
    /\ UNCHANGED <<run_vars, clock>>

\* SELECT COUNT(*) after the upload, and the return into main()'s results.
export_count ==
    /\ cli.pc = "count"
    /\ \E ok \in BOOLEAN :
          IF ok
          THEN LET table == cli.tables[cli.i]
               IN  cli' = [cli EXCEPT
                             !.pc = "tables", !.i = @ + 1,
                             !.results = Put(@, table,
                                 [rows   |-> Cardinality(TableRows(db, table)),
                                  s3_key |-> cli.key])]
          ELSE cli' = Failed("SELECT failed", "aborted")
    /\ UNCHANGED <<run_vars, clock, s3>>

\* --dry-run: the count alone.
dry_run_count ==
    /\ cli.pc = "tables"
    /\ cli.i <= Len(cli.tables)
    /\ cli.dry_run
    /\ \E ok \in BOOLEAN :
          LET table == cli.tables[cli.i]
          IN  IF cli.txn = "aborted"
              THEN cli' = Failed(InFailedSqlTransaction, "aborted")
              ELSE IF ~ok
              THEN cli' = Failed("SELECT failed", "aborted")
              ELSE cli' = [cli EXCEPT
                             !.txn = "open", !.i = @ + 1,
                             !.results = Put(@, table,
                                 [rows   |-> Cardinality(TableRows(db, table)),
                                  s3_key |-> NoKey])]
    /\ UNCHANGED <<run_vars, clock, s3>>

\* After the loop: conn.close(), the summary, and main() returns (exit code 0).
postgres_to_s3_exit ==
    /\ cli.pc = "tables"
    /\ cli.i > Len(cli.tables)
    /\ cli' = [cli EXCEPT !.pc = "exited", !.conn = "closed", !.exit = 0]
    /\ UNCHANGED <<run_vars, clock, s3>>

\* The writer: one run of the basic script over a source with one account
\* and one transaction.
WriterSources == {MkSource(1, 1, 0, 1)}

main_writer ==
    /\ runs = 0
    /\ Begin("basic", "access")

NextExport ==
    \/ postgres_to_s3_main
    \/ export_table_to_s3
    \/ export_count
    \/ dry_run_count
    \/ postgres_to_s3_exit
    \/ main_writer
    \/ credential
    \/ connect_postgres
    \/ create_tables
    \/ extract_accounts(WriterSources)
    \/ extract_transactions
    \/ load_accounts
    \/ load_transactions
    \/ return

SpecExport == Init /\ [][NextExport]_vars

\* The same two processes one after the other: neither starts while the
\* other is under way.
main_writer_alone ==
    /\ cli.pc \in {"idle", "exited"}
    /\ main_writer

postgres_to_s3_alone ==
    /\ outcome # "running"
    /\ postgres_to_s3_main

NextCli ==
    \/ postgres_to_s3_alone
    \/ export_table_to_s3
    \/ export_count
    \/ dry_run_count
    \/ postgres_to_s3_exit
    \/ main_writer_alone
    \/ credential
    \/ connect_postgres
    \/ create_tables
    \/ extract_accounts(WriterSources)
    \/ extract_transactions
    \/ load_accounts
    \/ load_transactions
    \/ return

SpecCli == Init /\ [][NextCli]_vars

\* ------------------------------------------------ sources that misreport
\* Sources whose responses carry no total, or a total one larger than the
\* number of records they hold; one run of either script over one of them.
PagingSources ==
    {[MkSource(1, n, 0, count) EXCEPT !.total = n + extra, !.reports_total = r] :
        n \in 0..MaxTxns, count \in 1..MaxPage, extra \in 0..1, r \in BOOLEAN}

main_paging ==
    /\ runs = 0
    /\ \E s \in Scripts : Begin(s, "access")

NextPaging ==
    \/ main_paging
    \/ credential
    \/ connect_postgres
    \/ create_tables
    \/ list_tables
    \/ extract_accounts(PagingSources)
    \/ extract_transactions
    \/ load_accounts
    \/ load_transactions
    \/ export_tables
    \/ return

\* A started run keeps executing: it takes its next step whenever it has one.
SpecPaging == Init /\ [][NextPaging]_vars /\ WF_vars(NextPaging)

\* ------------------------------------------------------------ properties
NoTimestamps(table) ==
    {[c \in DOMAIN r \ {"created_at", "updated_at"} |-> r[c]] : r \in table}

MissingAccount(t, tables) == t.account_id \notin Keys(tables.accounts, "account_id")

\* C1: when extract_transactions returns from a source that reports its true
\* total N, the list holds exactly the N source records, each once, in
\* source order, whatever the page size.
C1_PaginationComplete ==
    ("transactions" \in bound /\ source.total = Len(source.transactions))
        => transactions = source.transactions

C3_LoadAtomic ==
    call.table \in TableNames =>
        /\ (call.table = "transactions"
              /\ \E i \in 1..Len(call.data) : MissingAccount(call.data[i], call.pre))
            => ~call.ok
        /\ ~call.ok => db[call.table] = call.pre[call.table]
        /\ \/ db[call.table] = call.pre[call.table]
           \/ \A i \in 1..Len(call.data) : \E r \in db[call.table] :
                 /\ r[KeyOf(call.table)] = call.data[i][KeyOf(call.table)]
                 /\ r.updated_at = call.now

C3_Witness ==
    /\ call.table = "transactions" /\ ~call.ok
    /\ \E i, j \in 1..Len(call.data) :
          /\ i < j
          /\ ~MissingAccount(call.data[i], call.pre)
          /\ MissingAccount(call.data[j], call.pre)
    /\ outcome = "raised"

\* C4: when a stage after connect_postgres fails, run() has rolled back, then
\* closed the connection, and the failure is raised to the caller; a run with
\* a failed stage is never a returned run.
C4_FailureCleanup ==
    /\ (outcome = "raised" /\ failed \notin {"credential", "connect_postgres"})
          => (cleanup = <<"rollback", "close">> /\ conn = "closed" /\ txn = "idle")
    /\ failed # None => outcome = "raised"

\* C5: when run() has returned or raised, a connection it opened is closed.
C5_ConnectionClosed ==
    (outcome \in {"returned", "raised"} /\ conn # "none") => conn = "closed"

\* C6: when extract_accounts or a request of extract_transactions fails, run()
\* has received no list from the failed fetch and neither the committed
\* tables nor the connection's view of them differ from the start of the run.
C6_NoLoadOnFetchFailure ==
    (outcome = "raised" /\ failed \in {"extract_accounts", "extract_transactions"})
        => /\ db = start
           /\ work = start
           /\ failed = "extract_accounts" => (bound = {} /\ accounts = <<>>)
           /\ "transactions" \notin bound /\ transactions = <<>>

C6_Witness ==
    /\ outcome = "raised" /\ failed = "extract_transactions"
    /\ requests >= 1 /\ fetched # <<>>
    /\ accounts # <<>>
    /\ runs = 1

\* C7: whenever load_transactions / upsert_table('transactions') is called,
\* the accounts load of the same run has been called before it and every
\* account extracted in the run is in the committed accounts table.
C7_AccountsBeforeTransactions ==
    call.table = "transactions"
        => /\ "accounts" \in bound
           /\ \A i \in 1..Len(accounts) :
                 accounts[i].account_id \in Keys(call.pre.accounts, "account_id")

C7_Witness ==
    /\ call.table = "transactions" /\ call.ok /\ call.ran
    /\ Len(accounts) = 2
    /\ start.accounts = {}

\* C8: the committed accounts and transactions tables each hold at most one
\* row per account_id / transaction_id.
C8_KeyUnique ==
    \A t \in TableNames : \A r1, r2 \in db[t] :
        r1[KeyOf(t)] = r2[KeyOf(t)] => r1 = r2

C8_Witness ==
    /\ runs = 2
    /\ \E r \in db.transactions : r.updated_at > r.created_at
    /\ \E r \in db.transactions : r.updated_at = r.created_at
    /\ \E r \in db.accounts : r.updated_at > r.created_at

\* C9: in every step, a row that stays in its table keeps its created_at and
\* its updated_at does not decrease; a successful upsert of its key makes
\* updated_at larger.
C9_Timestamps ==
    [][\A t \in TableNames : \A r \in db[t] : \A r2 \in db'[t] :
          r2[KeyOf(t)] = r[KeyOf(t)] =>
             /\ r2.created_at = r.created_at
             /\ r2.updated_at >= r.updated_at
             /\ (/\ At(IF t = "accounts" THEN "load_accounts" ELSE "load_transactions")
                 /\ call'.ok /\ call'.ran
                 /\ \E i \in 1..Len(call'.data) : call'.data[i][KeyOf(t)] = r[KeyOf(t)])
                => r2.updated_at > r.updated_at]_vars

\* C10: in the scenario, the first run (empty store, 2 accounts, 150
\* transactions in pages of 100 + 50) prints accounts inserted 2 / updated 0
\* and transactions inserted 150 / updated 0; the run over the same source
\* with one amount changed prints transactions loaded 150, inserted 0,
\* updated 1.
Counts(l, i, u) == [printed |-> TRUE, loaded |-> l, inserted |-> i, updated |-> u]

C10_ScenarioCounts ==
    (outcome = "returned" /\ source.count = 100 /\ Len(source.transactions) = 150)
        => /\ (runs = 1 /\ start = EmptyTables)
               => /\ report.accounts = Counts(2, 2, 0)
                  /\ report.transactions = Counts(150, 150, 0)
           /\ (runs = 2 /\ start.transactions # {})
               => report.transactions = Counts(150, 0, 1)

\* C11: a loader called with an empty list raises nothing, runs no statement
\* and no commit (the committed tables are those before the call), and
\* reports the counts inserted = 0 and updated = 0.
C11_EmptyLoadNoOp ==
    (call.table \in TableNames /\ call.data = <<>>)
        => /\ call.ok
           /\ ~call.ran
           /\ db = call.pre
           /\ call.report = Counts(0, 0, 0)

\* C12: two exports of one table under one prefix that begin at different
\* times get different keys, so no upload replaces the object of an export
\* that began at another time.
C12_ExportKeyUnique ==
    [][\A o \in s3 : \E n \in s3' : n.key = o.key /\ n.at = o.at]_vars

\* C13: every listed table gets an entry in the summary, and no table's
\* export fails because the export of an earlier table failed.
IsError(info) == "error" \in DOMAIN info

C13_ExportIsolation ==
    /\ (cli.pc = "exited" /\ cli.conn = "closed")
            => \A i \in 1..Len(cli.tables) : cli.tables[i] \in DOMAIN cli.results
    /\ \A t \in DOMAIN cli.results :
            IsError(cli.results[t])
                => cli.results[t].error # InFailedSqlTransaction

\* C14: the row count export_table_to_s3 returns is the number of data rows
\* (lines without the header) of the artifact it uploaded, whatever other
\* writers commit meanwhile.
C14_ExportComplete ==
    \A t \in DOMAIN cli.results :
        LET info == cli.results[t]
        IN  (~IsError(info) /\ info.s3_key # NoKey /\ info.s3_key = cli.key)
                => info.rows = cli.spool - 1

\* C15: a run of the pipeline in which a stage failed ends with an exception
\* at the caller, and an invocation of the export utility in which a table's
\* export failed ends with a non-zero exit code.
C15_FailureReported ==
    /\ (failed # None /\ outcome # "running") => outcome = "raised"
    /\ (cli.pc = "exited" /\ \E t \in DOMAIN cli.results : IsError(cli.results[t]))
            => cli.exit # 0

\* C16: without a bucket the utility exits with 2, no connection opened and
\* nothing uploaded; with a bucket and a failed connection it exits with 3
\* and no table processed; otherwise every table is processed and it exits
\* with 0.
C16_ExitCodes ==
    cli.pc = "exited"
        => /\ ~cli.s3_bucket
                => /\ cli.exit = 2
                   /\ cli.conn = "none"
                   /\ cli.uploads = 0
                   /\ DOMAIN cli.results = {}
           /\ (cli.s3_bucket /\ cli.conn # "closed")
                => /\ cli.exit = 3
                   /\ cli.conn = "none"
                   /\ cli.uploads = 0
                   /\ DOMAIN cli.results = {}
           /\ (cli.s3_bucket /\ cli.conn = "closed")
                => /\ cli.exit = 0
                   /\ \A i \in 1..Len(cli.tables) :
                        cli.tables[i] \in DOMAIN cli.results

\* The second invocation could not connect, after a first one that uploaded.
C16_Witness ==
    /\ cli.pc = "exited"
    /\ cli.s3_bucket
    /\ cli.exit = 3
    /\ s3 # {}

\* C17: when the first response carries no total_transactions,
\* extract_transactions issues exactly one request and returns exactly the
\* records of that first page.
C17_MissingTotal ==
    ~source.reports_total
        => /\ requests <= 1
           /\ "transactions" \in bound
                => /\ requests = 1
                   /\ transactions =
                        transactions_get(source, TransactionsGetRequest).transactions

C17_Witness ==
    /\ ~source.reports_total
    /\ "transactions" \in bound
    /\ Len(source.transactions) > source.count
    /\ requests = 1

\* C18: when no request fails, extract_transactions eventually stops
\* requesting and returns, also over a source that serves an empty page or
\* reports a total larger than the records it serves.
C18_PaginationTerminates ==
    At("extract_transactions")
        ~> ("transactions" \in bound \/ failed = "extract_transactions")

====
